---- MODULE Spec2Model ----
(***************************************************************************)
(* A model of the HTTP server of this repository: the router library       *)
(* (src/src/lib.rs: Router, Route, Request, Response) and the stand-alone  *)
(* server (src/src/main.rs: handle, Request::parse, Body).                 *)
(*                                                                         *)
(* A string is the sequence of its bytes; a byte is a one-character        *)
(* string, or a name for a byte that is not ASCII.                         *)
(***************************************************************************)
EXTENDS Integers, Sequences, FiniteSets

VARIABLES
    prog,     \* which program of the repository runs: "lib" or "main"
    files,    \* main.rs: the directory served under /files/, name -> contents
    phase,    \* lib.rs Router: "config" (handle_func calls), "serving", "stopped"
    routes,   \* lib.rs Router.routes: the Vec<Route>, in registration order
    conns,    \* one record per spawned connection task (lib.rs) or thread (main.rs)
    pin,      \* decoder harness: the bytes handed to the decoder
    pout,     \* decoder harness: what the decoder returned for pin
    resp,     \* response harness: the Response value being built
    rlog,     \* response harness: the constructor and add_header calls made
    rout      \* response harness: the bytes to_string produced

vars == <<prog, files, phase, routes, conns, pin, pout, resp, rlog, rout>>

(***************************************************************************)
(* Bounds of the model.                                                    *)
(***************************************************************************)
MaxRoutes == 2      \* handle_func calls before serve
MaxHeaderOps == 2   \* add_header / add_headers calls on one Response
MaxRawLen == 3      \* bytes in an arbitrary input of the decoder

\* the capacity of the read buffer
BufSize == 4096

(***************************************************************************)
(* Bytes and strings.                                                      *)
(***************************************************************************)
CR == "\r"
LF == "\n"
SP == " "
NUL == "NUL"       \* the byte 0x00
XC3 == "xC3"       \* the byte 0xC3: the lead byte of a two-byte UTF-8 sequence
XA9 == "xA9"       \* the byte 0xA9: a UTF-8 continuation byte
XFF == "xFF"       \* the byte 0xFF: never part of a UTF-8 text

CRLF == <<CR, LF>>
COLONSP == <<":", SP>>
WILDCARD == <<":", "?">>

Min(a, b) == IF a < b THEN a ELSE b

\* str::starts_with
StartsWith(s, p) ==
    /\ Len(p) <= Len(s)
    /\ SubSeq(s, 1, Len(p)) = p

\* str::ends_with
EndsWith(s, p) ==
    /\ Len(p) <= Len(s)
    /\ SubSeq(s, Len(s) - Len(p) + 1, Len(s)) = p

\* str::find: the index of the first occurrence of p in s, 0 when there is none
Find(s, p) ==
    LET hits == {i \in 1..(Len(s) - Len(p) + 1) : SubSeq(s, i, i + Len(p) - 1) = p}
    IN  IF hits = {} THEN 0 ELSE CHOOSE i \in hits : \A j \in hits : i <= j

\* str::contains
Contains(s, p) == Find(s, p) # 0

\* str::split(sep): the segments between the non-overlapping occurrences of
\* sep, left to right; always at least one segment
RECURSIVE Split(_, _)
Split(s, sep) ==
    LET i == Find(s, sep)
    IN  IF i = 0
        THEN <<s>>
        ELSE <<SubSeq(s, 1, i - 1)>> \o Split(SubSeq(s, i + Len(sep), Len(s)), sep)

\* str::replace("\0", "")
RECURSIVE StripNul(_)
StripNul(s) ==
    IF s = <<>> THEN <<>>
    ELSE IF Head(s) = NUL THEN StripNul(Tail(s))
    ELSE <<Head(s)>> \o StripNul(Tail(s))

\* String::from_utf8 succeeds: every byte is ASCII, or a lead byte followed
\* by a continuation byte
RECURSIVE IsUtf8(_)
IsUtf8(b) ==
    IF b = <<>> THEN TRUE
    ELSE IF Head(b) = XFF \/ Head(b) = XA9 THEN FALSE
    ELSE IF Head(b) = XC3
         THEN Len(b) >= 2 /\ b[2] = XA9 /\ IsUtf8(SubSeq(b, 3, Len(b)))
    ELSE IsUtf8(Tail(b))

Digit(d) == <<"0", "1", "2", "3", "4", "5", "6", "7", "8", "9">>[d + 1]

\* the decimal text of a number (usize / u16 to_string, Display)
RECURSIVE ToDecimal(_)
ToDecimal(n) ==
    IF n < 10 THEN <<Digit(n)>> ELSE ToDecimal(n \div 10) \o <<Digit(n % 10)>>

\* HashMap::new and HashMap::insert: a map is a function on its keys
EmptyMap == [k \in {} |-> <<>>]

Insert(m, k, v) == [x \in (DOMAIN m) \cup {k} |-> IF x = k THEN v ELSE m[x]]

\* the orders in which a HashMap's iter() can yield its keys: any, the hasher
\* being seeded at random
IterOrders(m) ==
    LET n == Cardinality(DOMAIN m)
    IN  {o \in [1..n -> DOMAIN m] : \A i, j \in 1..n : i # j => o[i] # o[j]}

(***************************************************************************)
(* Request: lib.rs Request::from_utf8 / Request::parse, and the copy of    *)
(* parse in main.rs.                                                       *)
(***************************************************************************)
NoRequest == [method |-> <<>>, path |-> <<>>, headers |-> EmptyMap, body |-> <<>>]

Ok(req) == [kind |-> "ok", req |-> req, err |-> ""]
Err(msg) == [kind |-> "err", req |-> NoRequest, err |-> msg]
Panic(msg) == [kind |-> "panic", req |-> NoRequest, err |-> msg]

\* str::split_once(": "): <<>> for None, else <<name, value>>
SplitOnce(line, sep) ==
    LET i == Find(line, sep)
    IN  IF i = 0 THEN <<>>
        ELSE <<SubSeq(line, 1, i - 1), SubSeq(line, i + Len(sep), Len(line))>>

\* the loop "for line in lines": every remaining line that holds ": " is
\* inserted, a later line overwriting an earlier one of the same name
RECURSIVE HeaderLoop(_, _)
HeaderLoop(lines, headers) ==
    IF lines = <<>> THEN headers
    ELSE LET kv == SplitOnce(Head(lines), COLONSP)
         IN  HeaderLoop(Tail(lines),
                        IF kv = <<>> THEN headers ELSE Insert(headers, kv[1], kv[2]))

\* the body of parse, once the request line's tokens are known to be there
ParsedRequest(lines, line) ==
    [method |-> line[1],
     path |-> line[2],
     headers |-> HeaderLoop(Tail(lines), EmptyMap),
     body |-> lines[Len(lines)]]

\* Parse, were a request line of one token taken for a request of no path
ParseWithoutPathCheck(data) ==
    LET d == StripNul(data)
        lines == Split(d, CRLF)
        line == Split(lines[1], <<SP>>)
    IN  Ok(ParsedRequest(lines, IF Len(line) < 2 THEN line \o <<<<>>>> ELSE line))

\* lib.rs Request::parse
Parse(data) ==
    LET d == StripNul(data)
        lines == Split(d, CRLF)
    IN  IF Len(lines) = 0 THEN Err("invalid http data")
        ELSE LET line == Split(lines[1], <<SP>>)
             IN  IF Len(line) < 1 THEN Err("missing method in request")
                 ELSE IF Len(line) < 2 THEN Err("missing path in request")
                 ELSE Ok(ParsedRequest(lines, line))

\* lib.rs Request::from_utf8
FromUtf8(bytes) ==
    IF ~IsUtf8(bytes)
    THEN Err("Error converting http request to string")
    ELSE Parse(bytes)

\* main.rs Request::parse: the same steps, each failure an expect()
MainParse(data) ==
    LET d == StripNul(data)
        lines == Split(d, CRLF)
    IN  IF Len(lines) = 0 THEN Panic("invalid http data")
        ELSE LET line == Split(lines[1], <<SP>>)
             IN  IF Len(line) < 2 THEN Panic("invalid http data")
                 ELSE Ok(ParsedRequest(lines, line))

\* main.rs handle, lines 23-24: String::from_utf8(..).expect, then parse
MainDecode(bytes) ==
    IF ~IsUtf8(bytes) THEN Panic("invalid utf8") ELSE MainParse(bytes)

(***************************************************************************)
(* Response: lib.rs Response and its constructors.                         *)
(***************************************************************************)
CONTENT_TYPE == <<"C", "o", "n", "t", "e", "n", "t", "-", "T", "y", "p", "e">>
CONTENT_LENGTH ==
    <<"C", "o", "n", "t", "e", "n", "t", "-", "L", "e", "n", "g", "t", "h">>
TEXT_PLAIN == <<"t", "e", "x", "t", "/", "p", "l", "a", "i", "n">>
APPLICATION_JSON ==
    <<"a", "p", "p", "l", "i", "c", "a", "t", "i", "o", "n", "/", "j", "s", "o", "n">>
OCTET_STREAM ==
    <<"a", "p", "p", "l", "i", "c", "a", "t", "i", "o", "n", "/",
      "o", "c", "t", "e", "t", "-", "s", "t", "r", "e", "a", "m">>

\* Response.data: Option<Box<dyn Display>>
NoData == [kind |-> "none", text |-> <<>>, map |-> EmptyMap]
TextData(t) == [kind |-> "text", text |-> t, map |-> EmptyMap]
JsonData(m) == [kind |-> "json", text |-> <<>>, map |-> m]

\* Response::add_header (and add_headers, which does the same in place)
AddHeader(res, key, val) == [res EXCEPT !.headers = Insert(res.headers, key, val)]

\* Response::new
ResponseNew(code, text) ==
    [code |-> code,
     data |-> TextData(text),
     headers |-> Insert(Insert(EmptyMap, CONTENT_TYPE, TEXT_PLAIN),
                        CONTENT_LENGTH, ToDecimal(Len(text)))]

\* Response::empty
ResponseEmpty(code) == [code |-> code, data |-> NoData, headers |-> EmptyMap]

\* Response::json
ResponseJson(code, map) ==
    AddHeader([code |-> code, data |-> JsonData(map), headers |-> EmptyMap],
              CONTENT_TYPE, APPLICATION_JSON)

\* Display for Json, the map iterated in the order o
RECURSIVE JsonFmtFrom(_, _, _)
JsonFmtFrom(map, o, i) ==
    IF i > Len(o) THEN <<>>
    ELSE <<"\"">> \o o[i] \o <<"\"", ":", SP, "\"">> \o map[o[i]] \o <<"\"">>
         \o (IF i # Len(o) THEN <<",">> ELSE <<>>)
         \o JsonFmtFrom(map, o, i + 1)

JsonFmt(map, o) == <<"{">> \o JsonFmtFrom(map, o, 1) \o <<"}">>

\* format!("{}", data): the serialized body, a Json map iterated in order jo
DataFmt(data, jo) ==
    IF data.kind = "text" THEN data.text
    ELSE IF data.kind = "json" THEN JsonFmt(data.map, jo)
    ELSE <<>>

\* HeaderBlock, were a header written as "<Name>:<Value>\r\n"
RECURSIVE HeaderBlockNoSpace(_, _, _)
HeaderBlockNoSpace(headers, o, i) ==
    IF i > Len(o) THEN <<>>
    ELSE o[i] \o <<":">> \o headers[o[i]] \o CRLF \o HeaderBlockNoSpace(headers, o, i + 1)

\* the loop of to_string over headers.iter(), yielding the keys in order o
RECURSIVE HeaderBlock(_, _, _)
HeaderBlock(headers, o, i) ==
    IF i > Len(o) THEN <<>>
    ELSE o[i] \o COLONSP \o headers[o[i]] \o CRLF \o HeaderBlock(headers, o, i + 1)

\* to_string_in, were the blank line written whether or not there are headers
to_string_in_always_blank(res, o, jo) ==
    HeaderBlock(res.headers, o, 1)
    \o CRLF
    \o (IF res.data.kind # "none" THEN DataFmt(res.data, jo) ELSE <<>>)
    \o CRLF

\* Response::to_string, its two maps iterated in the orders o and jo
to_string_in(res, o, jo) ==
    HeaderBlock(res.headers, o, 1)
    \o (IF Cardinality(DOMAIN res.headers) # 0 THEN CRLF ELSE <<>>)
    \o (IF res.data.kind # "none" THEN DataFmt(res.data, jo) ELSE <<>>)
    \o CRLF

\* every text Response::to_string can return for res
to_string(res) ==
    {to_string_in(res, o, jo) : o \in IterOrders(res.headers),
                              jo \in IterOrders(res.data.map)}

\* StatusLine, were the reason "OK" whatever the code
StatusLineAlwaysOk(code) ==
    <<"H", "T", "T", "P", "/", "1", ".", "1", SP>> \o ToDecimal(code) \o <<SP>>
    \o <<"O", "K">> \o CRLF

\* serve, lines 102-106: the status line
StatusLine(code) ==
    <<"H", "T", "T", "P", "/", "1", ".", "1", SP>> \o ToDecimal(code) \o <<SP>>
    \o (IF code = 200 THEN <<"O", "K">> ELSE <<SP>>) \o CRLF

\* serve, lines 101-108: every text the task can hand to write_all for res
Output(res) == {StatusLine(res.code) \o s : s \in to_string(res)}

(***************************************************************************)
(* Route and Router: lib.rs.                                               *)
(***************************************************************************)
\* Router::handle_func, lines 47-54: the Route value it builds
NewRoute(path, handler, methods) ==
    [path |-> path, methods |-> methods, handler |-> handler]

\* Vec::contains
VecContains(v, x) == \E i \in DOMAIN v : v[i] = x

\* the closure of match_route, lines 139-149, on one route: "yes", "no", or
\* "panic" when strip_suffix(":?") is None and expect() fires
RouteTest(r, path) ==
    IF Contains(r.path, WILDCARD)
    THEN IF EndsWith(r.path, WILDCARD)
         THEN IF StartsWith(path, SubSeq(r.path, 1, Len(r.path) - Len(WILDCARD)))
              THEN "yes" ELSE "no"
         ELSE "panic"
    ELSE IF r.path = path THEN "yes" ELSE "no"

\* Iterator::find over routes.iter(), from index i: the closure is called on
\* one route after the other and the search stops at the first "yes"
RECURSIVE FindFrom(_, _, _)
FindFrom(rs, path, i) ==
    IF i > Len(rs) THEN [kind |-> "none", idx |-> 0]
    ELSE LET t == RouteTest(rs[i], path)
         IN  IF t = "yes" THEN [kind |-> "some", idx |-> i]
             ELSE IF t = "panic" THEN [kind |-> "panic", idx |-> i]
             ELSE FindFrom(rs, path, i + 1)

\* Route::match_route: Some(&routes[idx]), None, or a panic
match_route(rs, path) == FindFrom(rs, path, 1)

NoMatch == [kind |-> "unset", idx |-> 0]

(***************************************************************************)
(* Handlers.                                                               *)
(***************************************************************************)
NoResponse == [code |-> 0, data |-> NoData, headers |-> EmptyMap]

FOO == <<"f", "o", "o">>
BAR == <<"b", "a", "r">>
HI == <<"h", "i">>

\* lib.rs not_found_handler
not_found_handler(req) == ResponseNew(404, <<"p", "a", "g", "e", SP, "n", "o", "t", SP, "f", "o", "u", "n", "d">>)

\* lib.rs method_not_allowed_handler
method_not_allowed_handler(req) == ResponseNew(405, <<"m", "e", "t", "h", "o", "d", SP, "n", "o", "t", SP, "a", "l", "l", "o", "w", "e", "d">>)

\* the handlers of the documentation of lib.rs, registered by name
HandlerNames == {"test", "empty", "json"}

Handler(name, req) ==
    IF name = "test" THEN ResponseNew(200, HI)
    ELSE IF name = "empty" THEN ResponseEmpty(200)
    ELSE IF name = "json" THEN ResponseJson(200, Insert(EmptyMap, FOO, BAR))
    ELSE IF name = "not_found_handler" THEN not_found_handler(req)
    ELSE method_not_allowed_handler(req)

\* serve, lines 90-99: the handler chosen for a request and a match
ChooseHandler(rs, m, req) ==
    IF m.kind = "some"
    THEN IF ~VecContains(rs[m.idx].methods, req.method)
         THEN "method_not_allowed_handler"
         ELSE rs[m.idx].handler
    ELSE "not_found_handler"

(***************************************************************************)
(* The peers' requests and the routes the application registers.           *)
(***************************************************************************)
GET == <<"G", "E", "T">>
POST == <<"P", "O", "S", "T">>
HTTP11 == <<SP, "H", "T", "T", "P", "/", "1", ".", "1">>
P_ROOT == <<"/">>
P_TEST == <<"/", "t", "e", "s", "t">>
P_NOPE == <<"/", "n", "o", "p", "e">>
P_TE_WILD == <<"/", "t", "e", ":", "?">>
P_MID_WILD == <<"/", "a", ":", "?", "b">>
P_ECHO == <<"/", "e", "c", "h", "o">>
P_ECHO_HI == <<"/", "e", "c", "h", "o", "/", "h", "i">>
P_USER_AGENT == <<"/", "u", "s", "e", "r", "-", "a", "g", "e", "n", "t">>
P_FILES == <<"/", "f", "i", "l", "e", "s">>
P_FILES_F == <<"/", "f", "i", "l", "e", "s", "/", "f">>
USER_AGENT == <<"U", "s", "e", "r", "-", "A", "g", "e", "n", "t">>
ABC == <<"a", "b", "c">>

\* "<method> <path> HTTP/1.1\r\n<header lines>\r\n<body>"
A_CRLF_B == <<"a", CR, LF, "b">>
RequestBytes(method, path, headerLines, body) ==
    method \o <<SP>> \o path \o HTTP11 \o CRLF \o headerLines \o CRLF \o body

\* what a peer of the router of lib.rs may have sent by the time of the read
LibInputs ==
    { <<>>,                                         \* nothing: the read returns 0
      <<XFF, "G">>,                                 \* not UTF-8
      GET,                                          \* no path token
      RequestBytes(GET, P_TEST, <<>>, <<>>),
      RequestBytes(POST, P_TEST, <<>>, ABC),
      RequestBytes(GET, P_NOPE, <<>>, <<>>),
      RequestBytes(GET, P_ROOT, <<>>, <<>>) }

\* what a peer of the server of main.rs may have sent by the time of the read
MainInputs ==
    { <<>>,
      <<XFF, "G">>,
      GET,
      RequestBytes(GET, P_NOPE, <<>>, <<>>),
      RequestBytes(GET, P_ROOT, <<>>, <<>>),
      RequestBytes(GET, P_ECHO_HI, <<>>, <<>>),
      RequestBytes(GET, P_ECHO, <<>>, <<>>),
      RequestBytes(GET, P_USER_AGENT, USER_AGENT \o COLONSP \o HI \o CRLF, <<>>),
      RequestBytes(GET, P_USER_AGENT, <<>>, <<>>),
      RequestBytes(GET, P_FILES_F, <<>>, <<>>),
      RequestBytes(POST, P_FILES_F, <<>>, ABC),
      RequestBytes(POST, P_FILES_F, <<>>, A_CRLF_B),  \* a body of two lines
      RequestBytes(GET, P_FILES, <<>>, <<>>) }

\* the handle_func calls the application may make
RouteArgs ==
    { <<P_TE_WILD, "test", <<GET>> >>,
      <<P_TEST, "empty", <<GET, POST>> >>,
      <<P_ROOT, "json", <<GET>> >>,
      <<P_MID_WILD, "test", <<GET>> >> }

(***************************************************************************)
(* The connection tasks.                                                   *)
(***************************************************************************)
\* the slots of the connection tasks that run at once
Conns == {1, 2}

\* a slot no task runs in
Idle ==
    [pc |-> "idle",        \* where the task is
     peer |-> <<>>,        \* the bytes the peer sent
     buf |-> <<>>,         \* buf[0..n], the bytes read
     req |-> NoRequest,    \* the decoded Request
     m |-> NoMatch,        \* what match_route returned
     called |-> "",        \* the handler invoked
     res |-> NoResponse,   \* the Response the handler returned
     out |-> <<>>,         \* the bytes handed to the next write
     wire |-> <<>>,        \* the bytes of the writes that returned Ok
     err |-> <<>>]         \* the failures of the task, in order

Set(c, r) == conns' = [conns EXCEPT ![c] = r]

\* the slot the next accepted connection's task takes
FreeSlot == CHOOSE c \in Conns : conns[c].pc = "idle" /\ \A d \in Conns : conns[d].pc = "idle" => c <= d

(***************************************************************************)
(* lib.rs: Router::handle_func and Router::serve.                          *)
(***************************************************************************)
\* HandleFunc, were it callable after serve had begun
HandleFuncWhileServing(args) ==
    /\ prog = "lib"
    /\ Len(routes) < MaxRoutes
    /\ routes' = Append(routes, NewRoute(args[1], args[2], args[3]))
    /\ UNCHANGED <<prog, files, phase, conns, pin, pout, resp, rlog, rout>>

\* Router::handle_func: the route is pushed, whatever its pattern. It takes
\* &mut self, so it runs before serve borrows the router.
HandleFunc(args) ==
    /\ prog = "lib" /\ phase = "config"
    /\ Len(routes) < MaxRoutes
    /\ routes' = Append(routes, NewRoute(args[1], args[2], args[3]))
    /\ UNCHANGED <<prog, files, phase, conns, pin, pout, resp, rlog, rout>>

\* serve, lines 61-62: the listener binds, or bind fails and serve returns
Serve ==
    /\ prog = "lib" /\ phase = "config"
    /\ \E ok \in BOOLEAN : phase' = IF ok THEN "serving" ELSE "stopped"
    /\ UNCHANGED <<prog, files, routes, conns, pin, pout, resp, rlog, rout>>

\* serve, lines 65-68: a connection is accepted and its task spawned
Accept(bytes) ==
    /\ prog = "lib" /\ phase = "serving"
    /\ \E c \in Conns : conns[c].pc = "idle"
    /\ Set(FreeSlot, [Idle EXCEPT !.pc = "read", !.peer = bytes])
    /\ UNCHANGED <<prog, files, phase, routes, pin, pout, resp, rlog, rout>>

\* serve, line 65: accept fails, the ? returns from serve and the loop ends
AcceptFail ==
    /\ prog = "lib" /\ phase = "serving"
    /\ phase' = "stopped"
    /\ UNCHANGED <<prog, files, routes, conns, pin, pout, resp, rlog, rout>>

\* serve, lines 69-78: the one read into the buffer
Read(c) ==
    /\ prog = "lib" /\ conns[c].pc = "read"
    /\ \/ Set(c, [conns[c] EXCEPT !.pc = "done", !.err = Append(@, "read")])
       \/ LET n == Min(Len(conns[c].peer), BufSize)
          IN  IF n = 0
              THEN Set(c, [conns[c] EXCEPT !.pc = "done"])
              ELSE Set(c, [conns[c] EXCEPT !.pc = "decode",
                                           !.buf = SubSeq(conns[c].peer, 1, n)])
    /\ UNCHANGED <<prog, files, phase, routes, pin, pout, resp, rlog, rout>>

\* serve, lines 80-85: the bytes are decoded; a failure is logged and ends the task
Decode(c) ==
    /\ prog = "lib" /\ conns[c].pc = "decode"
    /\ LET r == FromUtf8(conns[c].buf)
       IN  IF r.kind = "ok"
           THEN Set(c, [conns[c] EXCEPT !.pc = "match", !.req = r.req])
           ELSE Set(c, [conns[c] EXCEPT !.pc = "done", !.err = Append(@, r.err)])
    /\ UNCHANGED <<prog, files, phase, routes, pin, pout, resp, rlog, rout>>

\* serve, line 86: the route is looked up; a panic ends the task
Match(c) ==
    /\ prog = "lib" /\ conns[c].pc = "match"
    /\ LET m == match_route(routes, conns[c].req.path)
       IN  Set(c, [conns[c] EXCEPT !.m = m,
                                   !.pc = IF m.kind = "panic" THEN "panicked" ELSE "handle",
                                   !.err = IF m.kind = "panic"
                                           THEN Append(@, "wildcard ':?' must be at the end")
                                           ELSE @])
    /\ UNCHANGED <<prog, files, phase, routes, pin, pout, resp, rlog, rout>>

\* serve, lines 90-108: the handler is chosen and called, its Response encoded
Handle(c) ==
    /\ prog = "lib" /\ conns[c].pc = "handle"
    /\ LET h == ChooseHandler(routes, conns[c].m, conns[c].req)
           res == Handler(h, conns[c].req)
       IN  \E o \in Output(res) :
               Set(c, [conns[c] EXCEPT !.pc = "write", !.called = h,
                                       !.res = res, !.out = o])
    /\ UNCHANGED <<prog, files, phase, routes, pin, pout, resp, rlog, rout>>

\* serve, lines 110-112: write_all; a failure is logged and the task goes on
Write(c) ==
    /\ prog = "lib" /\ conns[c].pc = "write"
    /\ \/ Set(c, [conns[c] EXCEPT !.pc = "flush", !.wire = @ \o conns[c].out])
       \/ Set(c, [conns[c] EXCEPT !.pc = "flush", !.err = Append(@, "write")])
    /\ UNCHANGED <<prog, files, phase, routes, pin, pout, resp, rlog, rout>>

\* serve, lines 114-116: flush; a failure is logged; the task ends
Flush(c) ==
    /\ prog = "lib" /\ conns[c].pc = "flush"
    /\ \/ Set(c, [conns[c] EXCEPT !.pc = "done"])
       \/ Set(c, [conns[c] EXCEPT !.pc = "done", !.err = Append(@, "flush")])
    /\ UNCHANGED <<prog, files, phase, routes, pin, pout, resp, rlog, rout>>

(***************************************************************************)
(* main.rs: main and handle.                                               *)
(***************************************************************************)
\* Body { contents, mime }: the contents are the Response's data, the mime
\* its Content-Type
MainBody(contents, mime) ==
    [data |-> TextData(contents), headers |-> Insert(EmptyMap, CONTENT_TYPE, mime)]

MainNone == [data |-> NoData, headers |-> EmptyMap]

MainOk(code, body, fs) ==
    [kind |-> "ok", err |-> "", files |-> fs,
     res |-> [code |-> code, data |-> body.data, headers |-> body.headers]]

MainPanic(msg, fs) == [kind |-> "panic", err |-> msg, files |-> fs, res |-> NoResponse]

\* handle, lines 44-72: the arm of the paths that start with "/files"
FilesArm(req, fs) ==
    IF ~StartsWith(req.path, P_FILES \o <<"/">>)
    THEN MainPanic("strip_prefix", fs)
    ELSE LET filename == SubSeq(req.path, Len(P_FILES) + 2, Len(req.path))
             readable == filename \in DOMAIN fs
         IN  IF req.method = POST
             THEN IF filename = <<>>
                  THEN MainPanic("unable to write", fs)
                  ELSE MainOk(201, MainNone, Insert(fs, filename, req.body))
             ELSE IF ~readable
             THEN MainOk(404, MainNone, fs)
             ELSE MainOk(200, MainBody(fs[filename], OCTET_STREAM), fs)

\* handle, lines 28-74: the match on the path, arm after arm
MainRoute(req, fs) ==
    IF req.path = P_ROOT THEN MainOk(200, MainNone, fs)
    ELSE IF StartsWith(req.path, P_ECHO)
    THEN IF StartsWith(req.path, P_ECHO \o <<"/">>)
         THEN MainOk(200, MainBody(SubSeq(req.path, Len(P_ECHO) + 2, Len(req.path)),
                                   TEXT_PLAIN), fs)
         ELSE MainOk(200, MainNone, fs)
    ELSE IF req.path = P_USER_AGENT
    THEN IF USER_AGENT \in DOMAIN req.headers
         THEN MainOk(200, MainBody(req.headers[USER_AGENT], TEXT_PLAIN), fs)
         ELSE MainPanic("unwrap on None", fs)
    ELSE IF StartsWith(req.path, P_FILES) THEN FilesArm(req, fs)
    ELSE MainOk(404, MainNone, fs)

\* Body::write_headers
write_headers(res) ==
    CONTENT_TYPE \o COLONSP \o res.headers[CONTENT_TYPE] \o CRLF
    \o CONTENT_LENGTH \o COLONSP \o ToDecimal(Len(res.data.text)) \o CRLF \o CRLF

\* main, line 10: the listener binds, or unwrap panics
MainBind ==
    /\ prog = "main" /\ phase = "config"
    /\ \E ok \in BOOLEAN : phase' = IF ok THEN "serving" ELSE "stopped"
    /\ UNCHANGED <<prog, files, routes, conns, pin, pout, resp, rlog, rout>>

\* main, lines 12-13, and handle, line 18: a connection is accepted and its
\* thread spawned
MainAccept(bytes) ==
    /\ prog = "main" /\ phase = "serving"
    /\ \E c \in Conns : conns[c].pc = "idle"
    /\ Set(FreeSlot, [Idle EXCEPT !.pc = "read", !.peer = bytes])
    /\ UNCHANGED <<prog, files, phase, routes, pin, pout, resp, rlog, rout>>

\* main, line 12: accept fails, the while let ends and main returns
MainAcceptFail ==
    /\ prog = "main" /\ phase = "serving"
    /\ phase' = "stopped"
    /\ UNCHANGED <<prog, files, routes, conns, pin, pout, resp, rlog, rout>>

\* handle, lines 19-21: the one read, unwrapped. The whole buffer is decoded
\* later: what the read did not fill stays zero, and the model keeps one of
\* those zero bytes.
MainRead(c) ==
    /\ prog = "main" /\ phase # "stopped" /\ conns[c].pc = "read"
    /\ \/ Set(c, [conns[c] EXCEPT !.pc = "panicked", !.err = Append(@, "read")])
       \/ LET n == Min(Len(conns[c].peer), BufSize)
          IN  Set(c, [conns[c] EXCEPT !.pc = "decode",
                                      !.buf = SubSeq(conns[c].peer, 1, n)
                                              \o IF n < BufSize THEN <<NUL>> ELSE <<>>])
    /\ UNCHANGED <<prog, files, phase, routes, pin, pout, resp, rlog, rout>>

\* handle, lines 23-24: the whole buffer is decoded; a failure panics
MainDecodeStep(c) ==
    /\ prog = "main" /\ phase # "stopped" /\ conns[c].pc = "decode"
    /\ LET r == MainDecode(conns[c].buf)
       IN  IF r.kind = "ok"
           THEN Set(c, [conns[c] EXCEPT !.pc = "route", !.req = r.req])
           ELSE Set(c, [conns[c] EXCEPT !.pc = "panicked", !.err = Append(@, r.err)])
    /\ UNCHANGED <<prog, files, phase, routes, pin, pout, resp, rlog, rout>>

\* handle, lines 28-74: the response is chosen, the file read or written
MainRouteStep(c) ==
    /\ prog = "main" /\ phase # "stopped" /\ conns[c].pc = "route"
    /\ LET r == MainRoute(conns[c].req, files)
       IN  /\ files' = r.files
           /\ IF r.kind = "ok"
              THEN Set(c, [conns[c] EXCEPT !.pc = "status", !.res = r.res,
                                           !.out = StatusLine(r.res.code)])
              ELSE Set(c, [conns[c] EXCEPT !.pc = "panicked", !.err = Append(@, r.err)])
    /\ UNCHANGED <<prog, phase, routes, pin, pout, resp, rlog, rout>>

\* handle, lines 76-81: the status line is written, unwrapped
MainWriteStatus(c) ==
    /\ prog = "main" /\ phase # "stopped" /\ conns[c].pc = "status"
    /\ \/ Set(c, [conns[c] EXCEPT !.pc = "head", !.wire = @ \o conns[c].out,
                                  !.out = IF conns[c].res.data.kind # "none"
                                          THEN write_headers(conns[c].res)
                                          ELSE CRLF])
       \/ Set(c, [conns[c] EXCEPT !.pc = "panicked", !.err = Append(@, "write")])
    /\ UNCHANGED <<prog, files, phase, routes, pin, pout, resp, rlog, rout>>

\* handle, lines 83-89: the headers of a body, or the lone "\r\n"
MainWriteHead(c) ==
    /\ prog = "main" /\ phase # "stopped" /\ conns[c].pc = "head"
    /\ \/ Set(c, [conns[c] EXCEPT
                    !.pc = IF conns[c].res.data.kind # "none" THEN "body" ELSE "done",
                    !.wire = @ \o conns[c].out,
                    !.out = conns[c].res.data.text])
       \/ Set(c, [conns[c] EXCEPT !.pc = "panicked", !.err = Append(@, "write")])
    /\ UNCHANGED <<prog, files, phase, routes, pin, pout, resp, rlog, rout>>

\* handle, line 86: the contents of the body
MainWriteBody(c) ==
    /\ prog = "main" /\ phase # "stopped" /\ conns[c].pc = "body"
    /\ \/ Set(c, [conns[c] EXCEPT !.pc = "done", !.wire = @ \o conns[c].out])
       \/ Set(c, [conns[c] EXCEPT !.pc = "panicked", !.err = Append(@, "write")])
    /\ UNCHANGED <<prog, files, phase, routes, pin, pout, resp, rlog, rout>>

(***************************************************************************)
(* The decoder on its own: Request::from_utf8 (lib.rs) and the decoding of *)
(* handle (main.rs) applied to a buffer.                                   *)
(***************************************************************************)
RawBytes == {"G", SP, "/", ":", CR, LF, NUL, XFF, XC3, XA9}

RawInputs == UNION {[1..n -> RawBytes] : n \in 0..MaxRawLen}

\* header blocks: lists of <<name, value>> lines and of lines without ": "
HeaderBlocks ==
    { <<>>,
      << <<<<"A">>, <<"1">>>> >>,
      << <<<<"A">>, <<"1">>>>, <<<<"A">>, <<"2">>>> >>,
      << <<<<"A">>, <<"1">>>>, <<<<"B">>>> >>,
      << <<<<"A">>, <<"b", ":", SP, "c">>>> >> }

Bodies ==
    { <<>>, ABC, <<"a", CR, LF, "b">>, <<"A", ":", SP, "9">>, <<"a", NUL, "b">>,
      <<XC3, XA9>> }

\* a header line on the wire
HeaderLine(h) == IF Len(h) = 2 THEN h[1] \o COLONSP \o h[2] \o CRLF ELSE h[1] \o CRLF

RECURSIVE HeaderLines(_)
HeaderLines(hs) == IF hs = <<>> THEN <<>> ELSE HeaderLine(Head(hs)) \o HeaderLines(Tail(hs))

\* the well-formed inputs, each with the parts it was put together from
WellFormedInputs ==
    { [wf |-> TRUE, method |-> m, path |-> p, hlines |-> hs, body |-> b,
       bytes |-> RequestBytes(m, p, HeaderLines(hs), b)] :
      m \in {GET, POST}, p \in {P_ROOT, P_TEST}, hs \in HeaderBlocks, b \in Bodies }

DecoderInputs ==
    WellFormedInputs \cup
    { [wf |-> FALSE, method |-> <<>>, path |-> <<>>, hlines |-> <<>>, body |-> <<>>,
       bytes |-> r] : r \in RawInputs }

NoInput == [wf |-> FALSE, method |-> <<>>, path |-> <<>>, hlines |-> <<>>,
            body |-> <<>>, bytes |-> <<>>]

NoOutput == [by |-> "", r |-> Err("")]

\* lib.rs: Request::from_utf8 on the buffer
DecodeLib ==
    /\ prog = "decoder" /\ pout = NoOutput
    /\ pout' = [by |-> "lib", r |-> FromUtf8(pin.bytes)]
    /\ UNCHANGED <<prog, files, phase, routes, conns, pin, resp, rlog, rout>>

\* main.rs: String::from_utf8(..).expect, Request::parse(..).unwrap on the buffer
DecodeMain ==
    /\ prog = "decoder" /\ pout = NoOutput
    /\ pout' = [by |-> "main", r |-> MainDecode(pin.bytes)]
    /\ UNCHANGED <<prog, files, phase, routes, conns, pin, resp, rlog, rout>>

(***************************************************************************)
(* A Response on its own: built by a constructor, changed by add_header    *)
(* and add_headers, encoded as serve encodes it.                           *)
(***************************************************************************)
Codes == {200, 201, 404}

Texts == {<<>>, HI, <<XC3, XA9>>, <<"a", "b", "c", "d", "e", "f", "g", "h", "i", "j">>}

JsonMaps ==
    {EmptyMap, Insert(EmptyMap, FOO, BAR), Insert(Insert(EmptyMap, FOO, BAR), HI, BAR)}

HeaderNames == {CONTENT_TYPE, CONTENT_LENGTH, FOO}

HeaderValues == {BAR, <<"5">>}

RespNew(code, text) ==
    /\ prog = "response" /\ rlog = <<>>
    /\ resp' = ResponseNew(code, text)
    /\ rlog' = <<"new">>
    /\ UNCHANGED <<prog, files, phase, routes, conns, pin, pout, rout>>

RespEmpty(code) ==
    /\ prog = "response" /\ rlog = <<>>
    /\ resp' = ResponseEmpty(code)
    /\ rlog' = <<"empty">>
    /\ UNCHANGED <<prog, files, phase, routes, conns, pin, pout, rout>>

RespJson(code, map) ==
    /\ prog = "response" /\ rlog = <<>>
    /\ resp' = ResponseJson(code, map)
    /\ rlog' = <<"json">>
    /\ UNCHANGED <<prog, files, phase, routes, conns, pin, pout, rout>>

\* Response::add_header: self is consumed and returned
RespAddHeader(key, val) ==
    /\ prog = "response" /\ rlog # <<>> /\ rout = <<>>
    /\ Len(rlog) <= MaxHeaderOps
    /\ resp' = AddHeader(resp, key, val)
    /\ rlog' = Append(rlog, "add_header")
    /\ UNCHANGED <<prog, files, phase, routes, conns, pin, pout, rout>>

\* Response::add_headers: self is changed in place
RespAddHeaders(key, val) ==
    /\ prog = "response" /\ rlog # <<>> /\ rout = <<>>
    /\ Len(rlog) <= MaxHeaderOps
    /\ resp' = AddHeader(resp, key, val)
    /\ rlog' = Append(rlog, "add_headers")
    /\ UNCHANGED <<prog, files, phase, routes, conns, pin, pout, rout>>

\* serve, lines 102-108: the status line and Response::to_string
RespEncode ==
    /\ prog = "response" /\ rlog # <<>> /\ rout = <<>>
    /\ rout' \in Output(resp)
    /\ UNCHANGED <<prog, files, phase, routes, conns, pin, pout, resp, rlog>>

(***************************************************************************)
(* The specifications.                                                     *)
(***************************************************************************)
InitHarness ==
    /\ pin = NoInput /\ pout = NoOutput
    /\ resp = NoResponse /\ rlog = <<>> /\ rout = <<>>

InitServer ==
    /\ phase = "config" /\ routes = <<>>
    /\ conns = [c \in Conns |-> Idle]

\* the servers: the router of lib.rs with the routes an application
\* registers, or the server of main.rs over its directory
Init ==
    /\ prog \in {"lib", "main"}
    /\ files \in IF prog = "main" THEN {EmptyMap, Insert(EmptyMap, <<"f">>, HI)}
                 ELSE {EmptyMap}
    /\ InitServer
    /\ InitHarness

Next ==
    \/ \E args \in RouteArgs : HandleFunc(args)
    \/ Serve
    \/ \E bytes \in LibInputs : Accept(bytes)
    \/ AcceptFail
    \/ \E c \in Conns : Read(c)
    \/ \E c \in Conns : Decode(c)
    \/ \E c \in Conns : Match(c)
    \/ \E c \in Conns : Handle(c)
    \/ \E c \in Conns : Write(c)
    \/ \E c \in Conns : Flush(c)
    \/ MainBind
    \/ \E bytes \in MainInputs : MainAccept(bytes)
    \/ MainAcceptFail
    \/ \E c \in Conns : MainRead(c)
    \/ \E c \in Conns : MainDecodeStep(c)
    \/ \E c \in Conns : MainRouteStep(c)
    \/ \E c \in Conns : MainWriteStatus(c)
    \/ \E c \in Conns : MainWriteHead(c)
    \/ \E c \in Conns : MainWriteBody(c)

Spec == Init /\ [][Next]_vars

\* the decoder applied to one buffer
InitDecoder ==
    /\ prog = "decoder" /\ files = EmptyMap
    /\ InitServer
    /\ pin \in DecoderInputs /\ pout = NoOutput
    /\ resp = NoResponse /\ rlog = <<>> /\ rout = <<>>

NextDecoder == DecodeLib \/ DecodeMain

SpecDecoder == InitDecoder /\ [][NextDecoder]_vars

\* one Response built, changed and encoded
InitResponse ==
    /\ prog = "response" /\ files = EmptyMap
    /\ InitServer
    /\ InitHarness

NextResponse ==
    \/ \E code \in Codes, text \in Texts : RespNew(code, text)
    \/ \E code \in Codes : RespEmpty(code)
    \/ \E code \in Codes, map \in JsonMaps : RespJson(code, map)
    \/ \E key \in HeaderNames, val \in HeaderValues : RespAddHeader(key, val)
    \/ \E key \in HeaderNames, val \in HeaderValues : RespAddHeaders(key, val)
    \/ RespEncode

SpecResponse == InitResponse /\ [][NextResponse]_vars

(***************************************************************************)
(* What the specification says of routing, stated without the code.        *)
(***************************************************************************)
\* a pattern ending in the marker matches by prefix, any other by equality
PatternMatches(pat, path) ==
    IF EndsWith(pat, WILDCARD)
    THEN StartsWith(path, SubSeq(pat, 1, Len(pat) - Len(WILDCARD)))
    ELSE pat = path

\* the index of the earliest registered route whose pattern matches, or 0
FirstMatch(rs, path) ==
    LET hits == {i \in DOMAIN rs : PatternMatches(rs[i].path, path)}
    IN  IF hits = {} THEN 0 ELSE CHOOSE i \in hits : \A j \in hits : i <= j

\* the marker, where a pattern holds it, is the end of the pattern
WellFormedPattern(pat) == Contains(pat, WILDCARD) => EndsWith(pat, WILDCARD)

\* the task of slot c has looked its route up
Matched(c) == conns[c].m # NoMatch

\* the task of slot c decoded a request and ended with every write done
Answered(c) ==
    /\ conns[c].pc = "done"
    /\ conns[c].req # NoRequest
    /\ conns[c].err = <<>>

\* no route of the program is there for the path of the request of slot c
NoRouteFor(c) ==
    LET path == conns[c].req.path
    IN  IF prog = "lib" THEN FirstMatch(routes, path) = 0
        ELSE /\ path # P_ROOT
             /\ ~StartsWith(path, P_ECHO)
             /\ path # P_USER_AGENT
             /\ ~StartsWith(path, P_FILES)

\* a response of the given status and nothing else: no header, no body
BareResponse(code) == StatusLine(code) \o CRLF

\* C1: match_route returns the earliest registered route whose pattern
\* matches the path (a literal pattern by equality, a pattern ending in ":?"
\* by prefix), and none when no pattern matches, for every list of routes.
C1_FirstMatchInOrder ==
    \A c \in Conns :
        Matched(c) =>
            LET i == FirstMatch(routes, conns[c].req.path)
            IN  conns[c].m = IF i = 0 THEN [kind |-> "none", idx |-> 0]
                             ELSE [kind |-> "some", idx |-> i]

\* Whenever match_route returns at all, it returns the earliest match.
FirstMatchUnlessPanic ==
    \A c \in Conns :
        (Matched(c) /\ conns[c].m.kind # "panic") =>
            LET i == FirstMatch(routes, conns[c].req.path)
            IN  conns[c].m = IF i = 0 THEN [kind |-> "none", idx |-> 0]
                             ELSE [kind |-> "some", idx |-> i]

\* With "/te:?" registered before "/test", a request for /test is bound to
\* the first route.
WildcardShadowsLiteral ==
    \A c \in Conns :
        (/\ Matched(c)
         /\ Len(routes) = 2
         /\ routes[1].path = P_TE_WILD /\ routes[2].path = P_TEST
         /\ conns[c].req.path = P_TEST) => conns[c].m = [kind |-> "some", idx |-> 1]

\* C2: a request whose path matches no registered route is answered with
\* status 404 and no body (no body bytes, no body headers), and no
\* registered handler is invoked for it.
C2_NotFoundNoBody ==
    \A c \in Conns :
        (Answered(c) /\ NoRouteFor(c)) =>
            /\ conns[c].wire = BareResponse(404)
            /\ conns[c].called \notin HandlerNames

\* C3: a request whose path matches a registered route but whose method is
\* not among the methods of the first route that matches is answered with
\* status 405 and no body, and the handler of the route is not invoked.
C3_MethodNotAllowedNoBody ==
    \A c \in Conns :
        (/\ prog = "lib"
         /\ Answered(c)
         /\ FirstMatch(routes, conns[c].req.path) # 0
         /\ ~VecContains(routes[FirstMatch(routes, conns[c].req.path)].methods,
                         conns[c].req.method)) =>
            /\ conns[c].wire = BareResponse(405)
            /\ conns[c].called \notin HandlerNames

\* the first line of a text: what precedes its first "\r\n"
FirstLine(text) ==
    LET i == Find(text, CRLF)
    IN  IF i = 0 THEN text ELSE SubSeq(text, 1, i - 1)

\* the bytes are no request: not UTF-8, or a request line without a space
Malformed(bytes) ==
    \/ ~IsUtf8(bytes)
    \/ ~Contains(FirstLine(StripNul(bytes)), <<SP>>)

\* the read of slot c is over and gave the task nothing to answer: no byte,
\* an error, or bytes that are no request
NothingToAnswer(c) ==
    /\ conns[c].pc \notin {"idle", "read"}
    /\ \/ conns[c].peer = <<>>
       \/ \E i \in DOMAIN conns[c].err : conns[c].err[i] = "read"
       \/ Malformed(conns[c].peer)

\* C7: for a connection whose read returns zero bytes, fails, or whose bytes
\* fail to decode, the task ends with no byte written: no route is matched,
\* no handler is invoked, no response is sent.
C7_NoResponseWithoutRequest ==
    \A c \in Conns :
        NothingToAnswer(c) =>
            /\ conns[c].wire = <<>>
            /\ conns[c].out = <<>>
            /\ conns[c].m = NoMatch
            /\ conns[c].called = ""
            /\ conns[c].res = NoResponse
            /\ conns[c].pc \in {"decode", "done", "panicked"}

\* a task of the router has ended on bytes that are no request, another on
\* a read of zero bytes
C7_Witness ==
    /\ prog = "lib"
    /\ conns[1].pc = "done" /\ conns[1].peer = GET
    /\ conns[1].err = <<"missing path in request">>
    /\ conns[2].pc = "done" /\ conns[2].peer = <<>> /\ conns[2].err = <<>>
    /\ NothingToAnswer(1) /\ NothingToAnswer(2)

\* C8: a pattern whose marker is not its end is rejected when it is
\* registered; no request can make route matching fail on it.
C8_MarkerRejectedAtRegistration ==
    /\ \A i \in DOMAIN routes : WellFormedPattern(routes[i].path)
    /\ \A c \in Conns : conns[c].m.kind # "panic"

\* No task ends in a panic of match_route.
NoPanicAtRequestTime == \A c \in Conns : conns[c].m.kind # "panic"

(***************************************************************************)
(* What the specification says of the decoder, stated without the code.    *)
(***************************************************************************)
Decoded == pout # NoOutput

\* the value of the last line of the header block hs that is named name
LastValue(hs, name) ==
    LET is == {i \in DOMAIN hs : Len(hs[i]) = 2 /\ hs[i][1] = name}
    IN  hs[CHOOSE i \in is : \A j \in is : j <= i][2]

\* the lines between the request line and the first blank line
LinesBeforeBlank(bytes) ==
    LET lines == Split(StripNul(bytes), CRLF)
        blanks == {i \in 2..Len(lines) : lines[i] = <<>>}
        last == IF blanks = {} THEN Len(lines)
                ELSE (CHOOSE i \in blanks : \A j \in blanks : i <= j) - 1
    IN  SubSeq(lines, 2, last)

\* those lines as <<name, value>> pairs, split at their first ": "
PairsBeforeBlank(bytes) ==
    LET ls == LinesBeforeBlank(bytes)
    IN  [i \in DOMAIN ls |-> SplitOnce(ls[i], COLONSP)]

\* the header map the specification describes for the bytes
HeadersBeforeBlank(bytes) ==
    LET hs == PairsBeforeBlank(bytes)
        names == {hs[i][1] : i \in {j \in DOMAIN hs : Len(hs[j]) = 2}}
    IN  [n \in names |-> LastValue(hs, n)]

\* C4: for a well-formed input "<METHOD> <PATH> HTTP/1.1\r\n<header
\* lines>\r\n\r\n<body>" the decoder succeeds; the method, the path and the
\* body of the Request are those of the input, the body being all that
\* follows the blank line; the header map holds every "Name: Value" line.
C4_WellFormedDecodes ==
    (Decoded /\ pin.wf /\ ~Contains(pin.bytes, <<NUL>>)) =>
        /\ pout.r.kind = "ok"
        /\ pout.r.req.method = pin.method
        /\ pout.r.req.path = pin.path
        /\ pout.r.req.body = pin.body
        /\ \A i \in DOMAIN pin.hlines :
               Len(pin.hlines[i]) = 2 =>
                   /\ pin.hlines[i][1] \in DOMAIN pout.r.req.headers
                   /\ pout.r.req.headers[pin.hlines[i][1]]
                          = LastValue(pin.hlines, pin.hlines[i][1])

\* A well-formed input whose body holds no "\r\n", no zero byte and no
\* ": " decodes to its parts.
WellFormedDecodesPlainBody ==
    (/\ Decoded /\ pin.wf
     /\ ~Contains(pin.body, CRLF) /\ ~Contains(pin.body, <<NUL>>)
     /\ ~Contains(pin.body, COLONSP)) =>
        /\ pout.r.kind = "ok"
        /\ pout.r.req.method = pin.method
        /\ pout.r.req.path = pin.path
        /\ pout.r.req.body = pin.body
        /\ pout.r.req.headers = HeadersBeforeBlank(pin.bytes)

\* C5: after a successful decode the header map holds exactly the pairs of
\* the lines between the request line and the first blank line, split at
\* their first ": ", a repeated name keeping its last value; no line after
\* the first blank line adds or overwrites an entry.
C5_HeadersOnlyBeforeBlank ==
    (Decoded /\ pout.r.kind = "ok") =>
        pout.r.req.headers = HeadersBeforeBlank(pin.bytes)

\* C6: the decoder returns an error value, neither a Request nor a crash,
\* for every input that is not UTF-8 and for every input whose request
\* line, zero bytes stripped, has fewer than two tokens; the text is
\* validated before anything is parsed.
C6_MalformedIsError ==
    (Decoded /\ Malformed(pin.bytes)) =>
        /\ pout.r.kind = "err"
        /\ ~IsUtf8(pin.bytes) => pout.r.err = "Error converting http request to string"

\* The decoder of lib.rs returns an error value for every malformed input.
LibMalformedIsError ==
    (Decoded /\ pout.by = "lib" /\ Malformed(pin.bytes)) =>
        /\ pout.r.kind = "err"
        /\ ~IsUtf8(pin.bytes) => pout.r.err = "Error converting http request to string"

(***************************************************************************)
(* What the specification says of a Response, stated without the code.     *)
(***************************************************************************)
Encoded == rout # <<>>

\* the byte length of the serialized body of a Response
BodyLength(res) ==
    IF res.data.kind = "text" THEN Len(res.data.text)
    ELSE IF res.data.kind = "json"
    THEN Len(JsonFmt(res.data.map, CHOOSE o \in IterOrders(res.data.map) : TRUE))
    ELSE 0

\* C9: a Response that carries a body, however it is built, has a
\* Content-Type and a Content-Length header when it is encoded, and the
\* Content-Length is the byte length of the serialized body.
C9_BodyHasTypeAndLength ==
    (Encoded /\ resp.data.kind # "none") =>
        /\ CONTENT_TYPE \in DOMAIN resp.headers
        /\ CONTENT_LENGTH \in DOMAIN resp.headers
        /\ resp.headers[CONTENT_LENGTH] = ToDecimal(BodyLength(resp))

\* A Response of Response::new that no add_header call changed has both
\* headers, and its Content-Length is the byte length of the body.
NewHasTypeAndLength ==
    (Encoded /\ rlog = <<"new">>) =>
        /\ resp.headers[CONTENT_TYPE] = TEXT_PLAIN
        /\ resp.headers[CONTENT_LENGTH] = ToDecimal(BodyLength(resp))

\* "HTTP/1.1 200 OK\r\nContent-Type: text/plain\r\nContent-Length: 2\r\n\r\nhi\r\n"
TypeThenLength ==
    <<"H", "T", "T", "P", "/", "1", ".", "1", SP, "2", "0", "0", SP, "O",
      "K", CR, LF, "C", "o", "n", "t", "e", "n", "t", "-", "T", "y", "p",
      "e", ":", SP, "t", "e", "x", "t", "/", "p", "l", "a", "i", "n", CR, LF,
      "C", "o", "n", "t", "e", "n", "t", "-", "L", "e", "n", "g", "t", "h",
      ":", SP, "2", CR, LF, CR, LF, "h", "i", CR, LF>>

\* "HTTP/1.1 200 OK\r\nContent-Length: 2\r\nContent-Type: text/plain\r\n\r\nhi\r\n"
LengthThenType ==
    <<"H", "T", "T", "P", "/", "1", ".", "1", SP, "2", "0", "0", SP, "O",
      "K", CR, LF, "C", "o", "n", "t", "e", "n", "t", "-", "L", "e", "n",
      "g", "t", "h", ":", SP, "2", CR, LF, "C", "o", "n", "t", "e", "n", "t",
      "-", "T", "y", "p", "e", ":", SP, "t", "e", "x", "t", "/", "p", "l",
      "a", "i", "n", CR, LF, CR, LF, "h", "i", CR, LF>>

\* the Response of code 200 and body "hi" has been encoded
HiEncoded == Encoded /\ rlog = <<"new">> /\ resp.code = 200 /\ resp.data = TextData(HI)

\* the lines of the header block of an encoded response
WireHeaderLines(text, code, n) ==
    LET rest == SubSeq(text, Len(StatusLine(code)) + 1, Len(text))
        lines == Split(rest, CRLF)
    IN  [i \in 1..n |-> lines[i]]

\* C10 as written: the headers are serialized in insertion order, so that
\* the Response of code 200, body "hi" and headers Content-Type: text/plain
\* then Content-Length: 2 encodes to exactly the text TypeThenLength.
C10_InsertionOrder == HiEncoded => rout = TypeThenLength

\* C10 as amended: each header is serialized once, as "<Name>: <Value>\r\n",
\* in the order the HashMap yields them, which is any; the Response of code
\* 200 and body "hi" encodes to TypeThenLength or to LengthThenType.
C10_AnyOrder ==
    /\ HiEncoded => rout \in {TypeThenLength, LengthThenType}
    /\ Encoded =>
           LET n == Cardinality(DOMAIN resp.headers)
               ls == WireHeaderLines(rout, resp.code, n)
           IN  /\ StartsWith(rout, StatusLine(resp.code))
               /\ {ls[i] : i \in 1..n}
                      = {k \o COLONSP \o resp.headers[k] : k \in DOMAIN resp.headers}

\* the Response of code 200 and body "hi" encoded with Content-Length first
C10_Witness == HiEncoded /\ rout = LengthThenType

(***************************************************************************)
(* What the specification says of the bytes on the wire.                   *)
(***************************************************************************)
\* the status lines of the specification, written out
StatusText(code) ==
    IF code = 200 THEN
        <<"H", "T", "T", "P", "/", "1", ".", "1", SP, "2", "0", "0", SP, "O",
          "K", CR, LF>>
    ELSE IF code = 201 THEN
        <<"H", "T", "T", "P", "/", "1", ".", "1", SP, "2", "0", "1", SP, SP,
          CR, LF>>
    ELSE IF code = 404 THEN
        <<"H", "T", "T", "P", "/", "1", ".", "1", SP, "4", "0", "4", SP, SP,
          CR, LF>>
    ELSE
        <<"H", "T", "T", "P", "/", "1", ".", "1", SP, "4", "0", "5", SP, SP,
          CR, LF>>

\* C11: every response written to a connection begins with the status line
\* "HTTP/1.1 <code> <reason>\r\n", the code being the one the handler chose
\* (404 and 405 where the dispatcher answers), the reason "OK" for 200 and a
\* single space for every other code.
C11_StatusLineFirst ==
    \A c \in Conns :
        conns[c].wire # <<>> =>
            /\ conns[c].res.code \in {200, 201, 404, 405}
            /\ StartsWith(conns[c].wire, StatusText(conns[c].res.code))
            /\ NoRouteFor(c) => conns[c].res.code = 404
            /\ conns[c].called = "method_not_allowed_handler" => conns[c].res.code = 405
            /\ conns[c].called \in HandlerNames => conns[c].res.code = 200

\* a response of code 200 and one of another code have been written
C11_Witness ==
    /\ conns[1].wire # <<>> /\ conns[1].res.code = 200
    /\ conns[2].wire # <<>> /\ conns[2].res.code = 404

\* what follows the status line on the wire of slot c
AfterStatus(c) ==
    SubSeq(conns[c].wire, Len(StatusText(conns[c].res.code)) + 1, Len(conns[c].wire))

\* the number of headers of the response of slot c: those of the Response
\* (lib.rs), the two of a Body (main.rs)
HeaderCount(c) ==
    IF prog = "lib" THEN Cardinality(DOMAIN conns[c].res.headers)
    ELSE IF conns[c].res.data.kind # "none" THEN 2 ELSE 0

\* C12: in the encoded response the header block is followed by a blank
\* line "\r\n" if and only if the response has at least one header; with no
\* header a single "\r\n" alone follows the status line.
C12_BlankLineIffHeaders ==
    \A c \in Conns :
        Answered(c) =>
            LET n == HeaderCount(c)
                lines == Split(AfterStatus(c), CRLF)
            IN  IF n = 0
                THEN AfterStatus(c) = CRLF
                ELSE /\ Len(lines) > n
                     /\ \A i \in 1..n : Contains(lines[i], COLONSP)
                     /\ lines[n + 1] = <<>>

\* a response without headers and one with headers have been sent
C12_Witness ==
    /\ Answered(1) /\ HeaderCount(1) = 0
    /\ Answered(2) /\ HeaderCount(2) > 0

\* C13: every encoded response that has a body ends with a "\r\n" written
\* after the bytes of the body.
C13_TrailingCrlfAfterBody ==
    \A c \in Conns :
        (Answered(c) /\ conns[c].res.data.kind # "none") =>
            \E jo \in IterOrders(conns[c].res.data.map) :
                EndsWith(conns[c].wire, DataFmt(conns[c].res.data, jo) \o CRLF)

\* The responses of the router of lib.rs that have a body end with "\r\n".
LibTrailingCrlfAfterBody ==
    \A c \in Conns :
        (prog = "lib" /\ Answered(c) /\ conns[c].res.data.kind # "none") =>
            \E jo \in IterOrders(conns[c].res.data.map) :
                EndsWith(conns[c].wire, DataFmt(conns[c].res.data, jo) \o CRLF)

\* the head the specification gives a text/plain body of n bytes
TextPlainHead(n) ==
    <<"C", "o", "n", "t", "e", "n", "t", "-", "T", "y", "p", "e", ":", SP,
      "t", "e", "x", "t", "/", "p", "l", "a", "i", "n", CR, LF, "C", "o",
      "n", "t", "e", "n", "t", "-", "L", "e", "n", "g", "t", "h", ":", SP>>
    \o ToDecimal(n) \o CRLF \o CRLF

\* the task of slot c answered 200 with the text s as a text/plain body
EchoedBack(c, s) ==
    /\ conns[c].res.code = 200
    /\ conns[c].res.data = TextData(s)
    /\ StartsWith(conns[c].wire, StatusText(200) \o TextPlainHead(Len(s)) \o s)

\* C14: a request whose path is "/echo/<s>" is answered 200 with the body
\* <s>, Content-Type text/plain and Content-Length the length of <s>; every
\* path the echo arm takes is answered with the path less its "/echo/"
\* prefix as the body.
C14_EchoStripsPrefix ==
    \A c \in Conns :
        (prog = "main" /\ Answered(c) /\ StartsWith(conns[c].req.path, P_ECHO)) =>
            /\ StartsWith(conns[c].req.path, P_ECHO \o <<"/">>)
            /\ EchoedBack(c, SubSeq(conns[c].req.path, Len(P_ECHO) + 2,
                                    Len(conns[c].req.path)))

\* A request whose path does start with "/echo/" is answered as C14 says.
EchoWithSlashStripsPrefix ==
    \A c \in Conns :
        (prog = "main" /\ Answered(c)
         /\ StartsWith(conns[c].req.path, P_ECHO \o <<"/">>)) =>
            EchoedBack(c, SubSeq(conns[c].req.path, Len(P_ECHO) + 2,
                                 Len(conns[c].req.path)))

\* what a peer sent after the first blank line of its request
SentBody(bytes) ==
    LET i == Find(bytes, CRLF \o CRLF)
    IN  IF i = 0 THEN <<>> ELSE SubSeq(bytes, i + 2 * Len(CRLF), Len(bytes))

\* the file a request for "/files/<name>" names
FileName(c) == SubSeq(conns[c].req.path, Len(P_FILES) + 2, Len(conns[c].req.path))

\* the thread of slot c is about to run the files arm for a named file
AtFilesArm(c) ==
    /\ prog = "main" /\ conns[c].pc = "route"
    /\ StartsWith(conns[c].req.path, P_FILES \o <<"/">>)
    /\ FileName(c) # <<>>

\* C15: a POST to /files/<name> with body b leaves exactly b in the file and
\* is answered 201 with no body; a GET of /files/<name> is answered with what
\* the file holds when the GET runs, so a GET that starts after the POST has
\* completed, no other POST in between, is answered 200 with body b as
\* application/octet-stream; a GET of a file that does not exist is
\* answered 404.
C15_FileRouteOrdering ==
    [][\A c \in Conns :
          (AtFilesArm(c) /\ conns'[c].pc # "route") =>
              IF conns[c].req.method = POST
              THEN /\ FileName(c) \in DOMAIN files'
                   /\ files'[FileName(c)] = SentBody(conns[c].peer)
                   /\ conns'[c].res.code = 201
                   /\ conns'[c].res.data = NoData
              ELSE /\ files' = files
                   /\ IF FileName(c) \in DOMAIN files
                      THEN /\ conns'[c].res.code = 200
                           /\ conns'[c].res.data = TextData(files[FileName(c)])
                           /\ conns'[c].res.headers[CONTENT_TYPE] = OCTET_STREAM
                      ELSE /\ conns'[c].res.code = 404
                           /\ conns'[c].res.data = NoData]_vars

\* The same, the POST writing the last "\r\n"-separated segment of what the
\* peer sent: this is what the files arm does.
FileRouteWritesLastSegment ==
    [][\A c \in Conns :
          (AtFilesArm(c) /\ conns'[c].pc # "route") =>
              IF conns[c].req.method = POST
              THEN /\ FileName(c) \in DOMAIN files'
                   /\ LET segs == Split(conns[c].peer, CRLF)
                      IN  files'[FileName(c)] = segs[Len(segs)]
                   /\ conns'[c].res.code = 201
                   /\ conns'[c].res.data = NoData
              ELSE /\ files' = files
                   /\ IF FileName(c) \in DOMAIN files
                      THEN /\ conns'[c].res.code = 200
                           /\ conns'[c].res.data = TextData(files[FileName(c)])
                           /\ conns'[c].res.headers[CONTENT_TYPE] = OCTET_STREAM
                      ELSE /\ conns'[c].res.code = 404
                           /\ conns'[c].res.data = NoData]_vars

\* C16: whatever fails on one connection (a read error, a malformed request,
\* a panic, a write or flush error, a failed accept), the accept loop keeps
\* running, and the failure stays with the task or thread of that connection
\* and is not retried.
C16_ServerSurvivesOneFailure ==
    [][/\ phase = "serving" => phase' = "serving"
       /\ \A c \in Conns :
              (conns[c].pc # "idle" /\ conns'[c] # conns[c]) =>
                  \A d \in Conns \ {c} : conns'[d] = conns[d]
       /\ \A c \in Conns :
              conns[c].pc \in {"done", "panicked"} => conns'[c] = conns[c]]_vars

\* A step of a connection's task or thread, failing or not, leaves the
\* accept loop and the other connections alone, and an ended task stays ended.
TaskFailureConfined ==
    [][/\ \A c \in Conns :
              (conns[c].pc # "idle" /\ conns'[c] # conns[c]) =>
                  /\ phase' = phase
                  /\ \A d \in Conns \ {c} : conns'[d] = conns[d]
       /\ \A c \in Conns :
              conns[c].pc \in {"done", "panicked"} => conns'[c] = conns[c]]_vars

\* the tasks of slots c and d were sent the same bytes, for a route that is
\* not the files route, and both answered
SameRequestAnswered(c, d) ==
    /\ c # d
    /\ conns[c].peer = conns[d].peer
    /\ Answered(c) /\ Answered(d)
    /\ ~StartsWith(conns[c].req.path, P_FILES)

\* the lines of a text, as a set
LineSet(text) == {Split(text, CRLF)[i] : i \in 1..Len(Split(text, CRLF))}

\* C17: the same request bytes handled twice, on different connections and
\* in any interleaving with other requests to routes other than the files
\* route, give byte-for-byte the same response.
C17_SameBytesSameOutput ==
    \A c, d \in Conns :
        SameRequestAnswered(c, d) => conns[c].wire = conns[d].wire

\* The same request bytes handled twice give the same Response, and on the
\* wire the same status line first, the same lines and the same length; the
\* server of main.rs gives the same bytes.
SameBytesSameOutputUpToHeaderOrder ==
    \A c, d \in Conns :
        SameRequestAnswered(c, d) =>
            /\ conns[c].res = conns[d].res
            /\ StartsWith(conns[c].wire, StatusText(conns[c].res.code))
            /\ StartsWith(conns[d].wire, StatusText(conns[c].res.code))
            /\ LineSet(conns[c].wire) = LineSet(conns[d].wire)
            /\ Len(conns[c].wire) = Len(conns[d].wire)
            /\ prog = "main" => conns[c].wire = conns[d].wire

\* C18: once serve has started no step adds, removes, reorders or modifies a
\* route, and what every connection task matched is the match against the
\* list as it was registered before serve, in that order.
C18_RoutesReadOnlyWhileServing ==
    [][/\ phase # "config" => routes' = routes
       /\ \A c \in Conns :
              conns'[c].m # NoMatch =>
                  conns'[c].m = match_route(routes', conns'[c].req.path)]_vars

\* two routes are registered, one task has matched the second of them and is
\* on its way while the other task, started before it, has matched none
C18_Witness ==
    /\ prog = "lib" /\ phase = "serving" /\ Len(routes) = 2
    /\ conns[1].m.kind = "none" /\ conns[1].pc = "write"
    /\ conns[2].m = [kind |-> "some", idx |-> 2] /\ conns[2].pc = "handle"

\* C19: every Request a decode returns has a path that starts with "/" and
\* a method that is not empty.
C19_PathStartsWithSlash ==
    (Decoded /\ pout.r.kind = "ok") =>
        /\ StartsWith(pout.r.req.path, <<"/">>)
        /\ pout.r.req.method # <<>>

\* Every input a decode accepts holds a space: its first line has two tokens,
\* which is all the decoders ask of it.
AcceptedHasSpace ==
    (Decoded /\ pout.r.kind = "ok") => Contains(pin.bytes, <<SP>>)

\* the number of status lines that begin in a text
StatusLinesIn(text) ==
    Len(Split(text, <<"H", "T", "T", "P", "/", "1", ".", "1", SP>>)) - 1

\* the task or thread of slot c has ended, having decoded a request
EndedWithRequest(c) ==
    /\ conns[c].pc \in {"done", "panicked"}
    /\ conns[c].req # NoRequest

\* C20: a connection task whose bytes decoded into a Request ends having
\* called one handler (the route's, the 404 one or the 405 one) once and
\* having attempted the write of one response: never two responses, never
\* an end without an attempt.
C20_ExactlyOneResponse ==
    \A c \in Conns :
        EndedWithRequest(c) =>
            /\ conns[c].out # <<>>
            /\ prog = "lib" =>
                   conns[c].called \in
                       HandlerNames \cup {"not_found_handler", "method_not_allowed_handler"}
            /\ StatusLinesIn(conns[c].wire) <= 1

\* No task or thread writes a second response, and one that ends without a
\* failure has written one.
AtMostOneResponse ==
    \A c \in Conns :
        /\ StatusLinesIn(conns[c].wire) <= 1
        /\ Answered(c) => StatusLinesIn(conns[c].wire) = 1

====
